---- MODULE Spec2Model ----
(***************************************************************************)
(* ScenarioManager of leaderboard/scenarios/scenario_manager.py as a state *)
(* machine.  The main thread's position inside run_scenario and            *)
(* _tick_scenario is the variable pc; load_scenario, stop_scenario and     *)
(* cleanup are operations the caller invokes while no method is running.   *)
(* The simulator, the agent, the behaviour tree, the wall clock and the    *)
(* watchdog timers are the environment: their answers are nondeterministic. *)
(* On SIGINT (raised by the user or by an expiring watchdog) the            *)
(* interpreter runs signal_handler before the main thread's next statement, *)
(* or inside the blocking call the main thread is waiting in.              *)
(***************************************************************************)
EXTENDS Integers, Sequences, FiniteSets, TLC

\* ---------------------------------------------------------------- bounds
\* Largest elapsed-seconds value of a simulator frame (one frame = one unit).
MaxTime == 2
\* Largest wall-clock reading.
MaxClock == 1
\* Largest number of criteria of a scenario.
MaxCriteria == 2
\* Largest number of run_scenario() calls on one manager.
MaxRuns == 2
\* Largest number of consecutive stop_scenario() calls.
MaxStops == 2

\* Python's None in a field that otherwise holds a number.
None == -1

VARIABLES
    \* fields of ScenarioManager
    scenario, ego_vehicles, _agent, _spectator, tree_status,
    _running, _timestamp_last_run,
    scenario_duration_system, scenario_duration_game,
    start_system_time, start_game_time, end_system_time, end_game_time,
    _watchdog, _agent_watchdog,
    \* control: position of the main thread, argument of _tick_scenario,
    \* how the last operation ended, whether a run has ended since the load
    pc, timestamp, exit, stoppedSinceLoad,
    \* environment: simulator clock, GameTime, an interrupt of the main
    \* thread raised by a watchdog and not yet delivered
    simTime, gameTime, sigPending,
    \* history of the current run (reset by the next call of the caller)
    tickCount, runTicks, runningEvals, terminalInRun, intrInRun, agentRaised,
    \* history of the calls: run_scenario calls so far, consecutive
    \* stop_scenario calls, what the last stop_scenario did and reported
    runs, consecutiveStops, stopEffects, report,
    \* the scenario handed to analyze_scenario: the statuses of its criteria
    \* and the flag of its timeout node
    scenario_criteria, scenario_timeout

cfg == <<scenario, ego_vehicles, _agent, _spectator>>
stats == <<scenario_duration_system, scenario_duration_game,
           start_system_time, start_game_time, end_system_time, end_game_time>>
ctl == <<timestamp, exit, stoppedSinceLoad>>
runHist == <<tickCount, runTicks, runningEvals, terminalInRun, intrInRun,
             agentRaised>>
callHist == <<runs, consecutiveStops, stopEffects, report>>
analysis == <<scenario_criteria, scenario_timeout>>
vars == <<cfg, tree_status, _running, _timestamp_last_run, stats, _watchdog,
          _agent_watchdog, pc, ctl, simTime, gameTime, runHist, callHist, analysis, sigPending>>

\* ------------------------------------------------------------- watchdog
\* srunner's Watchdog: a timer with a running, a paused and an expired flag.
NoWatchdog == [obj |-> FALSE, running |-> FALSE, paused |-> FALSE, failed |-> FALSE]
Watchdog == [obj |-> TRUE, running |-> FALSE, paused |-> FALSE, failed |-> FALSE]
WdStart(w) == [w EXCEPT !.running = TRUE, !.paused = FALSE, !.failed = FALSE]
WdUpdate(w) == [w EXCEPT !.failed = FALSE]
WdPause(w) == [w EXCEPT !.paused = TRUE]
WdResume(w) == [w EXCEPT !.paused = FALSE]
WdStop(w) == [w EXCEPT !.running = FALSE, !.paused = FALSE]
\* The watchdog counts down: it is started, not stopped and not paused.
WdActive(w) == w.obj /\ w.running /\ ~w.paused
\* The values get_status() can return.  After stop() the answer of an expired
\* watchdog is not defined: both answers are possible.
WdStatus(w) ==
    IF w.running THEN {~w.failed}
    ELSE IF w.failed THEN {TRUE, FALSE} ELSE {TRUE}

\* ------------------------------------------------------------ exit record
NoExit == [op |-> "none", outcome |-> "none", type |-> "none", cause |-> "none", at |-> "none"]
Running(op) == [op |-> op, outcome |-> "running", type |-> "none", cause |-> "none", at |-> "none"]
Returned(op) == [op |-> op, outcome |-> "returned", type |-> "none", cause |-> "none", at |-> "none"]
Raised(op, type, cause, at) == [op |-> op, outcome |-> "raised", type |-> type, cause |-> cause, at |-> at]

NoEffects == [terminated |-> FALSE, released |-> FALSE, analyzed |-> FALSE]
NoReport == "none"

\* The history of a run before its first step.
NoRunHist ==
    /\ tickCount' = [t \in 0..MaxTime |-> 0]
    /\ runTicks' = 0 /\ runningEvals' = 0 /\ terminalInRun' = FALSE
    /\ intrInRun' = FALSE /\ agentRaised' = "none"

\* ------------------------------------------------------------------ Init
\* The state after ScenarioManager.__init__ (lines 48-74).
Init ==
    /\ scenario = "None" /\ tree_status = "INVALID" /\ ego_vehicles = "None"
    /\ _agent = "None" /\ _spectator = FALSE
    /\ _running = FALSE /\ _timestamp_last_run = 0
    /\ scenario_duration_system = 0 /\ scenario_duration_game = 0
    /\ start_system_time = None /\ start_game_time = None
    /\ end_system_time = None /\ end_game_time = None
    /\ _watchdog = NoWatchdog /\ _agent_watchdog = NoWatchdog
    /\ pc = "idle" /\ timestamp = None /\ exit = NoExit
    /\ stoppedSinceLoad = FALSE
    /\ simTime = 0 /\ gameTime = [current |-> 0, last_frame |-> 0]
    /\ sigPending = FALSE
    /\ tickCount = [t \in 0..MaxTime |-> 0]
    /\ runTicks = 0 /\ runningEvals = 0 /\ terminalInRun = FALSE
    /\ intrInRun = FALSE /\ agentRaised = "none"
    /\ runs = 0 /\ consecutiveStops = 0
    /\ stopEffects = NoEffects /\ report = NoReport
    /\ scenario_criteria = <<>> /\ scenario_timeout = FALSE

\* ------------------------------------------------------ caller operations
\* The caller calls a method only when none is running.
Idle == pc = "idle"

\* time.time(): the wall clock never runs backwards, so a reading is not
\* below the readings the manager still holds.
ClockReads ==
    {t \in 0..MaxClock : t >= start_system_time /\ t >= end_system_time}

\* A variant of line 120 that does not index the list of ego vehicles.
SetupSensorsNoEgo(egos) == Returned("load")

\* Line 120: ego_vehicles[0] of an empty list raises IndexError, which leaves
\* load_scenario; otherwise load_scenario returns.
SetupSensors(egos) ==
    IF egos = "Empty" THEN Raised("load", "IndexError", "NoEgo", "load")
    ELSE Returned("load")

\* load_scenario (lines 101-120).  The IndexError of line 120 is raised
\* after every field has been assigned.
load_scenario ==
    /\ Idle
    /\ gameTime' = [current |-> 0, last_frame |-> 0]
    /\ _agent' = "AgentWrapper"
    /\ scenario' = "Scenario" /\ tree_status' = "INVALID"
    /\ \E egos \in {"Empty", "NonEmpty"} :
         /\ ego_vehicles' = egos
         /\ exit' = SetupSensors(egos)
    /\ _spectator' = TRUE
    /\ stoppedSinceLoad' = FALSE
    /\ consecutiveStops' = 0 /\ stopEffects' = NoEffects /\ report' = NoReport
    /\ NoRunHist
    /\ UNCHANGED <<_running, _timestamp_last_run, stats, _watchdog,
                   _agent_watchdog, pc, timestamp, simTime, runs, analysis, sigPending>>

\* cleanup (lines 86-99).
cleanup ==
    /\ Idle
    /\ _timestamp_last_run' = 0
    /\ scenario_duration_system' = 0 /\ scenario_duration_game' = 0
    /\ start_system_time' = None
    /\ end_system_time' = None /\ end_game_time' = None
    /\ _spectator' = FALSE
    /\ _watchdog' = NoWatchdog /\ _agent_watchdog' = NoWatchdog
    /\ exit' = Returned("cleanup")
    /\ consecutiveStops' = 0 /\ stopEffects' = NoEffects /\ report' = NoReport
    /\ NoRunHist
    /\ UNCHANGED <<scenario, ego_vehicles, _agent, tree_status, _running,
                   start_game_time, pc, timestamp, stoppedSinceLoad, simTime,
                   gameTime, runs, analysis, sigPending>>

\* The start of run_scenario (lines 126-137): both watchdogs are created and
\* started, the flag is set and the loop is entered.
run_scenario ==
    /\ Idle /\ runs < MaxRuns
    /\ \E t \in ClockReads : start_system_time' = t
    /\ start_game_time' = gameTime.current
    /\ _watchdog' = WdStart(Watchdog)
    /\ _agent_watchdog' = WdStart(Watchdog)
    /\ _running' = TRUE
    /\ pc' = "loop" /\ exit' = Running("run")
    /\ runs' = runs + 1
    /\ consecutiveStops' = 0 /\ stopEffects' = NoEffects /\ report' = NoReport
    /\ NoRunHist
    /\ UNCHANGED <<cfg, tree_status, _timestamp_last_run,
                   scenario_duration_system, scenario_duration_game,
                   end_system_time, end_game_time, timestamp, stoppedSinceLoad,
                   simTime, gameTime, analysis, sigPending>>

\* get_running_status (lines 198-205) on watchdog w: the values it can return.
get_running_status(w) == IF w.obj THEN WdStatus(w) ELSE {FALSE}

\* The statuses a criterion can report, and the criteria lists of a scenario.
TestStatus == {"SUCCESS", "FAILURE", "ACCEPTABLE"}
CriteriaLists == UNION {[1..n -> TestStatus] : n \in 0..MaxCriteria}

\* The loop of analyze_scenario (lines 239-241) over criteria i..Len(criteria).
RECURSIVE CriteriaLoop(_, _, _)
CriteriaLoop(criteria, i, global_result) ==
    IF i > Len(criteria) THEN global_result
    ELSE CriteriaLoop(criteria, i + 1,
                      IF criteria[i] # "SUCCESS" THEN "FAILURE" ELSE global_result)

\* A variant of analyze_scenario without the timeout test of lines 243-244.
analyze_scenario_criteria_only(criteria, timeout) ==
    CriteriaLoop(criteria, 1, "SUCCESS")

\* analyze_scenario (lines 233-246): the verdict handed to ResultOutputProvider.
analyze_scenario(criteria, timeout) ==
    LET global_result == CriteriaLoop(criteria, 1, "SUCCESS")
    IN  IF timeout THEN "FAILURE" ELSE global_result

\* The verdicts analyze_scenario can reach, over the criteria and the timeout
\* flag a scenario can have when it is stopped.
Verdicts == {analyze_scenario(c, t) : c \in CriteriaLists, t \in BOOLEAN}

\* stop_scenario (lines 207-231).
stop_scenario ==
    /\ Idle /\ consecutiveStops < MaxStops
    /\ _watchdog' = IF _watchdog.obj THEN WdStop(_watchdog) ELSE _watchdog
    /\ _agent_watchdog' = IF _agent_watchdog.obj THEN WdStop(_agent_watchdog)
                          ELSE _agent_watchdog
    /\ \E t \in ClockReads : end_system_time' = t
    /\ end_game_time' = gameTime.current
    /\ consecutiveStops' = consecutiveStops + 1
    /\ IF start_system_time = None
       THEN \* line 220: None is no operand of "-"
            /\ exit' = Raised("stop", "TypeError", "NoStart", "stop")
            /\ stopEffects' = NoEffects /\ report' = NoReport
            /\ UNCHANGED <<scenario_duration_system, scenario_duration_game,
                           _agent>>
       ELSE /\ scenario_duration_system' = end_system_time' - start_system_time
            /\ scenario_duration_game' = end_game_time' - start_game_time
            /\ \E status \in get_running_status(_watchdog') :
                 IF ~status
                 THEN /\ exit' = Returned("stop")
                      /\ stopEffects' = NoEffects /\ report' = NoReport
                      /\ UNCHANGED _agent
                 ELSE /\ _agent' = "None"
                      /\ IF scenario = "None"
                         THEN \* line 239: None has no get_criteria
                              /\ exit' = Raised("stop", "AttributeError", "NoScenario", "stop")
                              /\ stopEffects' = [terminated |-> FALSE,
                                                 released |-> _agent # "None",
                                                 analyzed |-> FALSE]
                              /\ report' = NoReport
                         ELSE /\ exit' = Returned("stop")
                              /\ stopEffects' = [terminated |-> TRUE,
                                                 released |-> _agent # "None",
                                                 analyzed |-> TRUE]
                              /\ \E global_result \in Verdicts :
                                   report' = global_result
    /\ UNCHANGED <<scenario, ego_vehicles, _spectator, tree_status, _running,
                   _timestamp_last_run, start_system_time, start_game_time, pc,
                   timestamp, stoppedSinceLoad, simTime, gameTime, runs, analysis, sigPending>>
    /\ NoRunHist

\* ------------------------------------------------------------ run loop
Min(a, b) == IF a < b THEN a ELSE b

\* What no statement of run_scenario and _tick_scenario changes.
RunFrame == UNCHANGED <<cfg, stats, callHist, analysis, sigPending>>

\* An exception or a return leaves run_scenario.
LeaveRun(e) ==
    /\ pc' = "idle" /\ exit' = e /\ timestamp' = None
    /\ stoppedSinceLoad' = (stoppedSinceLoad \/ ~_running)

\* The statement at `from` is done and the one at `to` is next.
Goto(from, to) == pc = from /\ pc' = to /\ UNCHANGED ctl

\* One evaluation of the while loop (lines 139-147): leave when the flag is
\* down, else poll the simulator for a snapshot; without one, poll again.
run_loop ==
    /\ pc = "loop"
    /\ IF ~_running
       THEN LeaveRun(Returned("run"))
       ELSE /\ \E snapshot \in {None, simTime} :
                 /\ timestamp' = snapshot
                 /\ pc' = IF snapshot = None THEN "loop" ELSE "tick_check"
            /\ UNCHANGED <<exit, stoppedSinceLoad>>
    /\ RunFrame
    /\ UNCHANGED <<tree_status, _running, _timestamp_last_run, _watchdog,
                   _agent_watchdog, simTime, gameTime, runHist>>

\* A variant of the condition of line 154 that accepts the frame already
\* processed.
ShouldTickAgain(last_run, elapsed_seconds, running) ==
    last_run <= elapsed_seconds /\ running

\* A variant of the condition of line 154 that ticks on every polled frame.
ShouldTickAlways(last_run, elapsed_seconds, running) == running

\* The condition of line 154.
ShouldTick(last_run, elapsed_seconds, running) ==
    last_run < elapsed_seconds /\ running

\* Lines 154-155: a frame newer than the last processed one starts a tick.
tick_check ==
    /\ pc = "tick_check"
    /\ IF ShouldTick(_timestamp_last_run, timestamp, _running)
       THEN /\ _timestamp_last_run' = timestamp
            /\ tickCount' = [tickCount EXCEPT ![timestamp] = Min(@ + 1, 2)]
            /\ runTicks' = Min(runTicks + 1, MaxTime + 1)
            /\ pc' = "wd_update"
       ELSE /\ pc' = "world_check"
            /\ UNCHANGED <<_timestamp_last_run, tickCount, runTicks>>
    /\ RunFrame
    /\ UNCHANGED <<ctl, tree_status, _running, _watchdog, _agent_watchdog,
                   simTime, gameTime, runningEvals, terminalInRun, intrInRun, agentRaised>>

\* Line 157.
wd_update ==
    /\ Goto("wd_update", "game_tick")
    /\ _watchdog' = WdUpdate(_watchdog)
    /\ RunFrame
    /\ UNCHANGED <<tree_status, _running, _timestamp_last_run,
                   _agent_watchdog, simTime, gameTime, runHist>>

\* GameTime.on_carla_tick: a newer frame advances the game clock.
on_carla_tick(g, t) ==
    IF g.last_frame < t
    THEN [current |-> g.current + (t - g.last_frame), last_frame |-> t]
    ELSE g

\* Lines 159-160.
game_tick ==
    /\ Goto("game_tick", "wd_pause")
    /\ gameTime' = on_carla_tick(gameTime, timestamp)
    /\ RunFrame
    /\ UNCHANGED <<tree_status, _running, _timestamp_last_run, _watchdog,
                   _agent_watchdog, simTime, runHist>>

\* Line 161; the try block of line 163 is entered.
wd_pause ==
    /\ Goto("wd_pause", "agent_resume")
    /\ _watchdog' = WdPause(_watchdog)
    /\ RunFrame
    /\ UNCHANGED <<tree_status, _running, _timestamp_last_run,
                   _agent_watchdog, simTime, gameTime, runHist>>

\* A variant of line 164 that leaves the agent watchdog as it is.
agent_resume_skipped ==
    /\ Goto("agent_resume", "agent_update")
    /\ RunFrame
    /\ UNCHANGED <<tree_status, _running, _timestamp_last_run, _watchdog,
                   _agent_watchdog, simTime, gameTime, runHist>>

\* Line 164.
agent_resume ==
    /\ Goto("agent_resume", "agent_update")
    /\ _agent_watchdog' = WdResume(_agent_watchdog)
    /\ RunFrame
    /\ UNCHANGED <<tree_status, _running, _timestamp_last_run, _watchdog,
                   simTime, gameTime, runHist>>

\* Line 165; the agent is then called (line 166).
agent_update ==
    /\ Goto("agent_update", "agent_call")
    /\ _agent_watchdog' = WdUpdate(_agent_watchdog)
    /\ RunFrame
    /\ UNCHANGED <<tree_status, _running, _timestamp_last_run, _watchdog,
                   simTime, gameTime, runHist>>

\* The statements inside the try block of lines 163-167.
TryPcs == {"agent_resume", "agent_update", "agent_call", "agent_pause"}

\* A variant of the except clauses without the clause of lines 170-171.
ExceptClauseAgentOnly(e) == "AgentError"

\* The except clauses of lines 170-174: the type of the exception that
\* leaves the tick when exception e is raised inside the try block.
ExceptClause(e) ==
    IF e = "SensorReceivedNoData" THEN "RuntimeError" ELSE "AgentError"

\* The exceptions the call of line 166 can raise: calling None is a
\* TypeError, a wrapped agent raises the sensor condition or anything else.
AgentExceptions ==
    IF _agent = "None" THEN {"TypeError"}
    ELSE {"SensorReceivedNoData", "Exception"}

\* Line 166 returns a control command.
agent_returns ==
    /\ Goto("agent_call", "agent_pause")
    /\ _agent # "None"
    /\ RunFrame
    /\ UNCHANGED <<tree_status, _running, _timestamp_last_run, _watchdog,
                   _agent_watchdog, simTime, gameTime, runHist>>

\* A variant of lines 166-174 that logs the agent's exception and carries on
\* with the tick instead of raising.
agent_raises_swallowed ==
    /\ pc = "agent_call" /\ pc' = "agent_pause"
    /\ \E e \in AgentExceptions : agentRaised' = e
    /\ RunFrame
    /\ UNCHANGED <<ctl, tree_status, _running, _timestamp_last_run, _watchdog,
                   _agent_watchdog, simTime, gameTime, tickCount, runTicks,
                   runningEvals, terminalInRun, intrInRun>>

\* Line 166 raises; lines 170-174 convert the exception, which leaves run.
agent_raises ==
    /\ pc = "agent_call"
    /\ \E e \in AgentExceptions :
         /\ agentRaised' = e
         /\ LeaveRun(Raised("run", ExceptClause(e), e, "agent_call"))
    /\ RunFrame
    /\ UNCHANGED <<tree_status, _running, _timestamp_last_run, _watchdog,
                   _agent_watchdog, simTime, gameTime, tickCount, runTicks,
                   runningEvals, terminalInRun, intrInRun>>

\* Line 167; the try block is left.
agent_pause ==
    /\ Goto("agent_pause", "wd_resume")
    /\ _agent_watchdog' = WdPause(_agent_watchdog)
    /\ RunFrame
    /\ UNCHANGED <<tree_status, _running, _timestamp_last_run, _watchdog,
                   simTime, gameTime, runHist>>

\* A variant of lines 176-180 without the control application of line 177.
wd_resume_no_control ==
    /\ Goto("wd_resume", "tree_tick")
    /\ _watchdog' = WdResume(_watchdog)
    /\ RunFrame
    /\ UNCHANGED <<tree_status, _running, _timestamp_last_run,
                   _agent_watchdog, simTime, gameTime, runHist>>

\* Line 176.
wd_resume ==
    /\ Goto("wd_resume", "apply_control")
    /\ _watchdog' = WdResume(_watchdog)
    /\ RunFrame
    /\ UNCHANGED <<tree_status, _running, _timestamp_last_run,
                   _agent_watchdog, simTime, gameTime, runHist>>

\* Line 177: ego_vehicles[0] of an empty list raises IndexError.
apply_control ==
    /\ pc = "apply_control"
    /\ IF ego_vehicles # "NonEmpty"
       THEN LeaveRun(Raised("run", "IndexError", "NoEgo", "apply_control"))
       ELSE pc' = "tree_tick" /\ UNCHANGED ctl
    /\ RunFrame
    /\ UNCHANGED <<tree_status, _running, _timestamp_last_run, _watchdog,
                   _agent_watchdog, simTime, gameTime, runHist>>

\* Line 180: the tree is evaluated once and reports its status.
tree_tick ==
    /\ Goto("tree_tick", "status_check")
    /\ \E status \in {"RUNNING", "SUCCESS", "FAILURE"} :
         /\ tree_status' = status
         /\ runningEvals' = IF status = "RUNNING"
                            THEN Min(runningEvals + 1, MaxTime + 1)
                            ELSE runningEvals
         /\ terminalInRun' = (terminalInRun \/ status # "RUNNING")
    /\ RunFrame
    /\ UNCHANGED <<_running, _timestamp_last_run, _watchdog, _agent_watchdog,
                   simTime, gameTime, tickCount, runTicks, intrInRun, agentRaised>>

\* A variant of the condition of line 188 that ends the loop on SUCCESS only.
TreeEndedOnSuccess(status) == status = "SUCCESS"

\* The condition of line 188.
TreeEnded(status) == status # "RUNNING"

\* Lines 188-189.
status_check ==
    /\ Goto("status_check", "spectator")
    /\ _running' = IF TreeEnded(tree_status) THEN FALSE ELSE _running
    /\ RunFrame
    /\ UNCHANGED <<tree_status, _timestamp_last_run, _watchdog,
                   _agent_watchdog, simTime, gameTime, runHist>>

\* Lines 191-193: without a spectator (never loaded, or cleaned up) line 192
\* raises AttributeError.
spectator ==
    /\ pc = "spectator"
    /\ IF ~_spectator
       THEN LeaveRun(Raised("run", "AttributeError", "NoSpectator", "spectator"))
       ELSE pc' = "world_check" /\ UNCHANGED ctl
    /\ RunFrame
    /\ UNCHANGED <<tree_status, _running, _timestamp_last_run, _watchdog,
                   _agent_watchdog, simTime, gameTime, runHist>>

\* A variant of the condition of line 195 that does not ask the watchdog.
ShouldAdvanceUnchecked(running, status) == running

\* The condition of line 195.
ShouldAdvance(running, status) == running /\ status

\* Line 195: the simulator is advanced only while the loop is active and
\* the world watchdog reports healthy.
world_check ==
    /\ pc = "world_check"
    /\ \E status \in get_running_status(_watchdog) :
         IF ShouldAdvance(_running, status)
         THEN pc' = "world_tick" /\ UNCHANGED timestamp
         ELSE pc' = "loop" /\ timestamp' = None
    /\ RunFrame
    /\ UNCHANGED <<exit, stoppedSinceLoad, tree_status, _running, _timestamp_last_run, _watchdog,
                   _agent_watchdog, simTime, gameTime, runHist>>

\* Line 196 returns: the simulator has advanced by one frame.  The next
\* iteration starts with no timestamp (line 140).
world_tick ==
    /\ pc = "world_tick" /\ pc' = "loop" /\ timestamp' = None
    /\ UNCHANGED <<exit, stoppedSinceLoad>>
    /\ simTime < MaxTime
    /\ simTime' = simTime + 1
    /\ RunFrame
    /\ UNCHANGED <<tree_status, _running, _timestamp_last_run, _watchdog,
                   _agent_watchdog, gameTime, runHist>>

\* ---------------------------------------------------------- environment
\* The deadline of a counting watchdog passes during the run: from now on it
\* reports expired.
WatchdogExpires ==
    /\ pc # "idle"
    /\ \/ /\ WdActive(_watchdog) /\ ~_watchdog.failed
          /\ _watchdog' = [_watchdog EXCEPT !.failed = TRUE]
          /\ UNCHANGED _agent_watchdog
       \/ /\ WdActive(_agent_watchdog) /\ ~_agent_watchdog.failed
          /\ _agent_watchdog' = [_agent_watchdog EXCEPT !.failed = TRUE]
          /\ UNCHANGED _watchdog
    /\ UNCHANGED <<cfg, tree_status, _running, _timestamp_last_run, stats, pc,
                   ctl, simTime, gameTime, tickCount,
                   runTicks, runningEvals, terminalInRun, intrInRun,
                   agentRaised, callHist, analysis, sigPending>>

\* --------------------------------------------------------- signal handler
\* The exception raised by signal_handler at the main thread's position:
\* inside the try block of the tick it is caught and converted by the except
\* clauses, elsewhere it propagates as it is.
HandlerRaises(cause) ==
    /\ LeaveRun(Raised("run",
                        IF pc \in TryPcs THEN ExceptClause("RuntimeError")
                        ELSE "RuntimeError",
                        cause, pc))
    /\ UNCHANGED _running

\* What `w and not w.get_status()` of lines 80 and 82 can evaluate to.
Expired(w) == IF w.obj THEN {~s : s \in WdStatus(w)} ELSE {FALSE}

\* A variant of lines 80-84 that only cancels and never raises.
HandlerBranchCancelOnly(agent_expired, world_expired) == "none"

\* A variant of the if/elif of lines 80-83 that tests the world watchdog
\* first.
HandlerBranchWorldFirst(agent_expired, world_expired) ==
    IF world_expired THEN "WorldDeadline"
    ELSE IF agent_expired THEN "AgentDeadline"
    ELSE "none"

\* The if/elif of lines 80-83: the RuntimeError the handler raises, "none"
\* when it reaches line 84.
HandlerBranch(agent_expired, world_expired) ==
    IF agent_expired THEN "AgentDeadline"
    ELSE IF world_expired THEN "WorldDeadline"
    ELSE "none"

\* The body of signal_handler (lines 80-84) at the main thread's position.
HandlerBody ==
    \E agent_expired \in Expired(_agent_watchdog),
       world_expired \in Expired(_watchdog) :
      LET raised == HandlerBranch(agent_expired, world_expired)
      IN  IF raised # "none" THEN HandlerRaises(raised)
          ELSE /\ _running' = FALSE
               /\ UNCHANGED <<pc, ctl>>

\* SIGINT arrives while run_scenario is executing (the user aborts, or a
\* watchdog that found its deadline passed interrupts the main thread):
\* signal_handler (lines 76-84) runs at the main thread's current position.
signal_handler ==
    /\ pc # "idle"
    /\ HandlerBody
    /\ intrInRun' = TRUE
    /\ UNCHANGED <<cfg, tree_status, _timestamp_last_run, stats, _watchdog,
                   _agent_watchdog, simTime, gameTime, tickCount,
                   runTicks, runningEvals, terminalInRun,
                   agentRaised, callHist, analysis, sigPending>>

\* ------------------------------------------------------------- the system
Next ==
    \/ load_scenario \/ cleanup \/ run_scenario \/ stop_scenario
    \/ run_loop \/ tick_check \/ wd_update \/ game_tick \/ wd_pause
    \/ agent_resume \/ agent_update \/ agent_returns \/ agent_raises
    \/ agent_pause \/ wd_resume \/ apply_control \/ tree_tick \/ status_check
    \/ spectator \/ world_check \/ world_tick
    \/ WatchdogExpires \/ signal_handler

Spec == Init /\ [][Next]_vars

\* ------------------------------------------- expiry that interrupts the run
\* The deadline of a counting watchdog passes during the run and the watchdog
\* interrupts the main thread: the interrupt is pending until delivered.
WatchdogEvent ==
    /\ pc # "idle"
    /\ \/ /\ WdActive(_watchdog) /\ ~_watchdog.failed
          /\ _watchdog' = [_watchdog EXCEPT !.failed = TRUE]
          /\ UNCHANGED _agent_watchdog
       \/ /\ WdActive(_agent_watchdog) /\ ~_agent_watchdog.failed
          /\ _agent_watchdog' = [_agent_watchdog EXCEPT !.failed = TRUE]
          /\ UNCHANGED _watchdog
    /\ sigPending' = TRUE
    /\ UNCHANGED <<cfg, tree_status, _running, _timestamp_last_run, stats, pc,
                   ctl, simTime, gameTime, runHist, callHist, analysis>>

\* The pending interrupt is delivered: signal_handler (lines 76-84) runs at
\* the main thread's position, inside run_scenario or in the caller's code
\* after it (where its exception is the caller's and only line 84 shows).
deliver_interrupt ==
    /\ sigPending /\ sigPending' = FALSE
    /\ IF pc # "idle"
       THEN HandlerBody /\ intrInRun' = TRUE
       ELSE /\ \E agent_expired \in Expired(_agent_watchdog),
                  world_expired \in Expired(_watchdog) :
                 _running' = IF HandlerBranch(agent_expired, world_expired) = "none"
                             THEN FALSE ELSE _running
            /\ UNCHANGED <<pc, ctl, intrInRun>>
    /\ UNCHANGED <<cfg, tree_status, _timestamp_last_run, stats, _watchdog,
                   _agent_watchdog, simTime, gameTime, tickCount,
                   runTicks, runningEvals, terminalInRun,
                   agentRaised, callHist, analysis>>

\* The statements of run_scenario that wait for nobody: all but the agent's
\* call and the simulator's frame advance.
Step ==
    \/ run_loop \/ tick_check \/ wd_update \/ game_tick \/ wd_pause
    \/ agent_resume \/ agent_update \/ agent_pause \/ wd_resume
    \/ apply_control \/ tree_tick \/ status_check \/ spectator \/ world_check

\* A watchdog counts down while the main thread waits in the call it guards.
ExpiresWhileBlocked == pc \in {"agent_call", "world_tick"} /\ WatchdogEvent

NextLive ==
    \/ load_scenario \/ cleanup \/ run_scenario
    \/ Step \/ agent_returns \/ agent_raises \/ world_tick
    \/ WatchdogEvent \/ deliver_interrupt \/ signal_handler

\* The interpreter keeps executing, a pending interrupt is delivered, and a
\* call that never returns outlasts the deadline of the watchdog guarding it.
SpecLive ==
    /\ Init /\ [][NextLive]_vars
    /\ WF_vars(Step) /\ WF_vars(deliver_interrupt) /\ WF_vars(ExpiresWhileBlocked)

\* ------------------------------------------------- analyze_scenario alone
\* A manager whose scenario has any criteria, any timeout flag and a tree in
\* any status, on which analyze_scenario is called once.
InitAnalyze ==
    /\ scenario = "Scenario" /\ ego_vehicles = "NonEmpty"
    /\ tree_status \in {"INVALID", "RUNNING", "SUCCESS", "FAILURE"}
    /\ _agent = "None" /\ _spectator = TRUE
    /\ _running = FALSE /\ _timestamp_last_run = 0
    /\ scenario_duration_system = 0 /\ scenario_duration_game = 0
    /\ start_system_time = 0 /\ start_game_time = 0
    /\ end_system_time = 0 /\ end_game_time = 0
    /\ _watchdog = WdStop(Watchdog) /\ _agent_watchdog = WdStop(Watchdog)
    /\ pc = "idle" /\ timestamp = None /\ exit = NoExit
    /\ stoppedSinceLoad = TRUE
    /\ simTime = 0 /\ gameTime = [current |-> 0, last_frame |-> 0]
    /\ sigPending = FALSE
    /\ tickCount = [t \in 0..MaxTime |-> 0]
    /\ runTicks = 0 /\ runningEvals = 0 /\ terminalInRun = FALSE
    /\ intrInRun = FALSE /\ agentRaised = "none"
    /\ runs = 1 /\ consecutiveStops = 1
    /\ stopEffects = NoEffects /\ report = NoReport
    /\ scenario_criteria \in CriteriaLists /\ scenario_timeout \in BOOLEAN

\* One call of analyze_scenario (lines 233-246).
analyze ==
    /\ Idle /\ report = NoReport
    /\ report' = analyze_scenario(scenario_criteria, scenario_timeout)
    /\ exit' = Returned("analyze")
    /\ UNCHANGED <<cfg, tree_status, _running, _timestamp_last_run, stats,
                   _watchdog, _agent_watchdog, pc, timestamp, stoppedSinceLoad,
                   simTime, gameTime, runHist, runs,
                   consecutiveStops, stopEffects, analysis, sigPending>>

NextAnalyze == analyze

SpecAnalyze == InitAnalyze /\ [][NextAnalyze]_vars

\* ================================================================ claims
\* The steps of a tick up to and including the evaluation of the tree.
TickPcs == {"wd_update", "game_tick", "wd_pause", "agent_resume",
            "agent_update", "agent_call", "agent_pause", "wd_resume",
            "apply_control", "tree_tick"}
RunRaised == pc = "idle" /\ exit.op = "run" /\ exit.outcome = "raised"
RunReturned == pc = "idle" /\ exit.op = "run" /\ exit.outcome = "returned"

\* C1: within one call of run_scenario, however often the same frame is
\* polled, at most one tick is started per elapsed-seconds value.
C1_OneTickPerTimestamp == \A t \in 0..MaxTime : tickCount[t] <= 1

\* A frame that has already been ticked in this run is polled again while
\* the loop is active.
C1_Witness ==
    /\ pc = "tick_check" /\ _running
    /\ timestamp # None /\ tickCount[timestamp] = 1

\* C2 as stated: a stop_scenario that follows the expiry of the agent
\* watchdog terminates nothing, releases nothing and analyzes nothing.
C2_StopSkipsAfterAgentExpiry ==
    [][(stop_scenario /\ exit.cause = "AgentDeadline" /\ ~_watchdog.failed)
         => stopEffects' = NoEffects]_vars

\* C3 as stated: the exception signal_handler raises for the expired agent
\* watchdog while the main thread is inside the agent call leaves
\* run_scenario as the RuntimeError it was raised as.
C3_AgentDeadlineNotConverted ==
    (RunRaised /\ exit.cause = "AgentDeadline" /\ exit.at = "agent_call")
        => exit.type = "RuntimeError"

\* C4: when the agent call raises SensorReceivedNoData the exception that
\* leaves the tick is a RuntimeError and not an AgentError; when it raises
\* anything else the exception that leaves the tick is an AgentError.
C4_AgentExceptionTypes ==
    (RunRaised /\ agentRaised # "none") =>
        /\ agentRaised = "SensorReceivedNoData" => exit.type = "RuntimeError"
        /\ agentRaised # "SensorReceivedNoData" => exit.type = "AgentError"

\* The agent call raised SensorReceivedNoData and run_scenario was left.
C4_Witness ==
    /\ RunRaised /\ agentRaised = "SensorReceivedNoData"
    /\ exit.at = "agent_call" /\ exit.type = "RuntimeError"

\* C5 as stated, for the runs in which no watchdog is left expired: a
\* stop_scenario that directly follows a stop_scenario terminates nothing,
\* releases nothing and analyzes nothing.
C5_SecondStopDoesNothing ==
    (consecutiveStops >= 2 /\ ~_watchdog.failed /\ ~_agent_watchdog.failed)
        => stopEffects = NoEffects

\* C6 as stated: a stop_scenario that directly follows a completed
\* stop_scenario leaves the end times and the durations as they are.
C6_StatisticsComputedOnce ==
    [][(stop_scenario /\ consecutiveStops >= 1 /\ exit = Returned("stop"))
         => stats' = stats]_vars

\* C7: the verdict of analyze_scenario is FAILURE exactly when some criterion
\* is not SUCCESS or the timeout flag is set, and SUCCESS otherwise, whatever
\* the status of the behaviour tree.
C7_Verdict ==
    report # NoReport =>
        LET failed == \/ \E i \in DOMAIN scenario_criteria :
                            scenario_criteria[i] # "SUCCESS"
                      \/ scenario_timeout
        IN  /\ failed => report = "FAILURE"
            /\ ~failed => report = "SUCCESS"

\* analyze_scenario has reported FAILURE for the timeout alone, every
\* criterion and the tree being SUCCESS.
C7_Witness ==
    /\ report = "FAILURE" /\ scenario_timeout /\ tree_status = "SUCCESS"
    /\ Len(scenario_criteria) = MaxCriteria
    /\ \A i \in DOMAIN scenario_criteria : scenario_criteria[i] = "SUCCESS"

\* C8: in a run without interrupt in which the tree reports RUNNING k times
\* and then a terminal status, run_scenario returns after exactly k+1 ticks
\* with the flag down and without an exception; and in every run, once the
\* tree has reported a terminal status, no step of a tick up to the tree
\* evaluation is executed again.
C8_TicksUntilTerminal ==
    /\ (RunReturned /\ ~intrInRun) =>
          /\ terminalInRun /\ TreeEnded(tree_status)
          /\ runTicks = runningEvals + 1
          /\ ~_running
    /\ (terminalInRun /\ pc # "idle") => pc \notin TickPcs \cup {"tick_check"}

\* run_scenario has returned, uninterrupted, after one RUNNING evaluation
\* and a terminal one.
C8_Witness ==
    /\ RunReturned /\ ~intrInRun
    /\ runningEvals = 1 /\ runTicks = 2 /\ tree_status \in {"SUCCESS", "FAILURE"}

\* C11: signal_handler run while the agent watchdog is expired raises the
\* error naming the agent; run while only the world watchdog is expired it
\* raises the error naming the simulation; in both cases it leaves the flag
\* as it is.  Run while no watchdog is expired it raises nothing and lowers
\* the flag.
C11_HandlerPrecedence ==
    [][signal_handler =>
         IF _agent_watchdog.failed
         THEN exit'.outcome = "raised" /\ exit'.cause = "AgentDeadline"
              /\ _running' = _running
         ELSE IF _watchdog.failed
         THEN exit'.outcome = "raised" /\ exit'.cause = "WorldDeadline"
              /\ _running' = _running
         ELSE exit' = exit /\ pc' = pc /\ ~_running']_vars

\* The handler has raised for the agent watchdog while both were expired.
C11_Witness ==
    /\ RunRaised /\ exit.cause = "AgentDeadline"
    /\ _agent_watchdog.failed /\ _watchdog.failed

\* C12 as stated, its safety half: once signal_handler has run in a run with
\* both watchdogs healthy (it lowered the flag and raised nothing), the
\* simulator is not advanced any more in that run.
C12_NoAdvanceAfterInterrupt ==
    [][(intrInRun /\ pc # "idle" /\ ~_running
        /\ ~_watchdog.failed /\ ~_agent_watchdog.failed)
         => simTime' = simTime]_vars

\* C13: load_scenario called with a scenario without ego vehicle fails: an
\* exception (the IndexError of line 120) is raised from load_scenario
\* itself, before it returns; with an ego vehicle it returns.
C13_LoadWithoutEgoFails ==
    [][load_scenario =>
         /\ exit'.op = "load" /\ pc' = "idle"
         /\ ego_vehicles' = "Empty" =>
               exit'.outcome = "raised" /\ exit'.type = "IndexError"
         /\ ego_vehicles' # "Empty" => exit'.outcome = "returned"]_vars

\* load_scenario has failed on a scenario without ego vehicle.
C13_Witness ==
    /\ pc = "idle" /\ ego_vehicles = "Empty"
    /\ exit.op = "load" /\ exit.outcome = "raised"

\* C14 as stated: while run_scenario is executing, the world watchdog and
\* the agent watchdog are never both counting down.
C14_WatchdogsExclusive ==
    pc # "idle" => ~(WdActive(_watchdog) /\ WdActive(_agent_watchdog))

\* C15: while the agent call of line 166 is in flight the agent watchdog is
\* running and not paused; while world.tick() of line 196 is in flight the
\* world watchdog is running and not paused.
C15_CallsGuarded ==
    /\ pc = "agent_call" => WdActive(_agent_watchdog)
    /\ pc = "world_tick" => WdActive(_watchdog)

\* The agent call of the second tick of a run is in flight: the agent
\* watchdog, paused at the end of the first tick, counts again and the world
\* watchdog is paused.
C15_Witness ==
    /\ pc = "agent_call" /\ runTicks = 2
    /\ WdActive(_agent_watchdog) /\ _watchdog.paused

\* The statements of a tick in the order the claim gives them, followed by
\* the statement that comes after the decision to continue or stop.
TickOrder ==
    <<"wd_update", "game_tick", "wd_pause", "agent_resume", "agent_update",
      "agent_call", "agent_pause", "wd_resume", "apply_control", "tree_tick",
      "status_check", "spectator">>
IndexInTick(p) == CHOOSE i \in 1..Len(TickOrder) : TickOrder[i] = p

\* C16: a tick executes its statements in the order refresh world watchdog,
\* advance game clock, pause world watchdog, resume and refresh agent
\* watchdog, agent call, pause agent watchdog, resume world watchdog, apply
\* control, evaluate tree, decide; each statement is followed by the next
\* one or by an exception that leaves run_scenario, so none is executed
\* twice; and the simulator is advanced only by the statement reached from
\* the test of line 195, which comes after all of them.
C16_StepOrder ==
    [][/\ (pc \in TickPcs \cup {"status_check"} /\ pc' # pc) =>
             \/ pc' = "idle" /\ exit'.outcome = "raised"
             \/ pc' = TickOrder[IndexInTick(pc) + 1]
       /\ (pc' = "wd_update" /\ pc # "wd_update") => pc = "tick_check"
       /\ (pc = "wd_update" /\ pc' = "game_tick") => ~_watchdog'.failed
       /\ (pc = "game_tick" /\ pc' = "wd_pause") =>
             gameTime'.last_frame >= timestamp
       /\ (pc = "wd_pause" /\ pc' = "agent_resume") => _watchdog'.paused
       /\ (pc = "agent_resume" /\ pc' = "agent_update") =>
             ~_agent_watchdog'.paused
       /\ (pc = "agent_update" /\ pc' = "agent_call") =>
             ~_agent_watchdog'.failed
       /\ (pc = "agent_pause" /\ pc' = "wd_resume") => _agent_watchdog'.paused
       /\ (pc = "wd_resume" /\ pc' = "apply_control") => ~_watchdog'.paused
       /\ (pc = "status_check" /\ pc' = "spectator") =>
             _running' = (_running /\ tree_status = "RUNNING")
       /\ (pc' = "world_check" /\ pc # "world_check") =>
             pc \in {"tick_check", "spectator"}
       /\ (pc' = "world_tick" /\ pc # "world_tick") => pc = "world_check"
       /\ simTime' # simTime => pc = "world_tick" /\ pc' = "loop"]_vars

\* A tick has executed all its statements on the current frame and the
\* simulator is about to be advanced.
C16_Witness ==
    /\ pc = "world_tick" /\ timestamp # None
    /\ _timestamp_last_run = timestamp /\ tickCount[timestamp] = 1
    /\ tree_status = "RUNNING"

\* C17 as stated, its last part: the simulator is not advanced while the
\* world watchdog is expired.
C17_NoAdvanceAfterExpiry == [][simTime' # simTime => ~_watchdog.failed]_vars

\* C17 amended: the simulator is advanced by exactly one frame, by the
\* statement that ends the iteration (so at most once in an iteration); that
\* statement is reached only from the test of line 195 and only when the
\* test finds the flag up and the world watchdog healthy; and it is not
\* reached in a run whose tree has reported a terminal status.
C17_AdvanceGuarded ==
    /\ [][(simTime' # simTime =>
              (simTime' = simTime + 1 /\ pc = "world_tick" /\ pc' = "loop"))
           /\ ((pc' = "world_tick" /\ pc # "world_tick") =>
              (pc = "world_check" /\ _running /\ ~_watchdog.failed))]_vars
    /\ [](terminalInRun => pc # "world_tick")

\* The test of line 195 has found the world watchdog expired in an active
\* loop and the iteration has ended without advancing the simulator.
C17_Witness ==
    /\ pc = "loop" /\ _running /\ _watchdog.failed /\ runTicks >= 1
    /\ simTime = _timestamp_last_run

\* C19: when the agent's callable raises, run_scenario is left at once: the
\* tick applies no control, evaluates no tree and advances no frame, so every
\* earlier tick of the run but not this one has an evaluation; and the
\* watchdogs are left as the try block had them, the agent watchdog running
\* and not paused, the world watchdog running and paused.
C19_FaultSkipsRestOfTick ==
    /\ [][(pc = "agent_call" /\ agentRaised' # "none") =>
            (/\ pc' = "idle" /\ exit'.outcome = "raised" /\ exit'.op = "run"
             /\ simTime' = simTime /\ tree_status' = tree_status
             /\ runningEvals' = runningEvals /\ runTicks' = runTicks
             /\ _watchdog' = _watchdog /\ _agent_watchdog' = _agent_watchdog)]_vars
    /\ [](RunRaised /\ agentRaised # "none" =>
            /\ _agent_watchdog.running /\ ~_agent_watchdog.paused
            /\ _watchdog.running /\ _watchdog.paused
            /\ ~terminalInRun /\ runTicks = runningEvals + 1)

\* The agent has raised in the second tick of a run.
C19_Witness == RunRaised /\ agentRaised # "none" /\ runTicks = 2

\* C20 as stated, its first part: the timestamps of executed ticks increase
\* strictly for as long as the manager lives. The game clock's last frame is
\* the timestamp of an earlier tick (or 0), so a tick that starts on a frame
\* not newer than it repeats or precedes an earlier tick.
C20_TicksIncreaseForLife ==
    [][(pc = "tick_check" /\ pc' = "wd_update") =>
         gameTime.last_frame < timestamp]_vars

\* C20 amended: between two calls of cleanup the timestamps of executed
\* ticks increase strictly. A tick starts only on a frame newer than the last
\* processed one and makes it the last processed one; that mark changes in
\* no other way but cleanup's reset to 0, so it survives load_scenario; a
\* frame at 0 is never ticked; and the world watchdog's expiry is reset only
\* by the update that opens a tick or by a caller's operation, never by the
\* statements of a skipped iteration, which can still advance the simulator.
C20_TicksIncreaseUntilCleanup ==
    /\ [][(pc = "tick_check" /\ pc' = "wd_update") =>
            (_timestamp_last_run < timestamp /\ _timestamp_last_run' = timestamp)]_vars
    /\ [][_timestamp_last_run' # _timestamp_last_run =>
            \/ pc = "tick_check" /\ pc' = "wd_update"
            \/ pc = "idle" /\ exit'.op = "cleanup" /\ _timestamp_last_run' = 0]_vars
    /\ [][(_watchdog.failed /\ ~_watchdog'.failed) =>
            pc \in {"wd_update", "idle"}]_vars
    /\ [](tickCount[0] = 0)

\* A run whose only iteration so far skipped the frame at 0 has advanced the
\* simulator, and the world watchdog that expired meanwhile is still expired.
C20_Witness ==
    /\ pc = "loop" /\ _running /\ runTicks = 0 /\ simTime = 1
    /\ _timestamp_last_run = 0 /\ _watchdog.failed

\* C18: once a watchdog has expired during run_scenario, run_scenario
\* eventually ends; it does not go on forever with an expired watchdog.
C18_ExpiryEndsRun ==
    (pc # "idle" /\ (_watchdog.failed \/ _agent_watchdog.failed)) ~> (pc = "idle")

\* The simulator's frame advance outlasted the world watchdog's deadline and
\* the interrupt ended the run there.
C18_Witness ==
    /\ RunRaised /\ exit.at = "world_tick" /\ exit.cause = "WorldDeadline"
    /\ _watchdog.failed /\ ~sigPending

\* C9 as stated: after run_scenario has been left with the flag down, no
\* tick is executed before the next load_scenario.
C9_NoRunAfterStopped == stoppedSinceLoad => pc \notin TickPcs

\* C10 as stated: after an exception has left run_scenario the flag is down.
C10_StoppedAfterFault == RunRaised => ~_running

====
